---- MODULE Spec2Model ----
(***************************************************************************)
(* Model of the incremental speech-synthesis pipeline of aura-voice:       *)
(*   - textChunker / generate            (src/app/actions.ts)              *)
(*   - textToSpeechInputStreaming and the WebSocket handlers it installs   *)
(*   - the readStreamableValue consumer loop of AssistantButton.tsx        *)
(*   - the audio scheduler (decode, playChunk) and the button of           *)
(*     AssistantButton.tsx, and the useMediaRecorder hook                  *)
(*                                                                         *)
(* A JavaScript string is a sequence of one-character strings, so that     *)
(* slice, indexing and concatenation are computed and not assumed.         *)
(***************************************************************************)
EXTENDS Integers, Sequences, FiniteSets, TLC

VARIABLES
    \* ---- textChunker run on its own (ChunkSpec) ----
    input,      \* the deltas the generator will yield, in order
    consumed,   \* how many deltas textChunker has taken from the generator
    chunkBuf,   \* textChunker's local `buffer`
    yielded,    \* the chunks textChunker has yielded, in order
    chunkerPc,  \* "running" | "done"
    \* ---- server: module state of actions.ts ----
    socket,          \* `socket`: 0 for null, else the connection it refers to
    readyState,      \* readyState of every WebSocket ever created
    handlers,        \* per connection: the turn whose streamableAudio its
                     \* onmessage / onerror / onclose closures capture
    messages,        \* `messages`: the conversation history; every entry
                     \* also names the turn that pushed it (history)
    \* ---- server: one call of textToSpeechInputStreaming per turn ----
    pc,              \* "idle" | "sending" | "returned" | "failed" (tts: null)
    buffer,          \* textChunker's buffer of the turn
    generated,       \* the deltas generate has yielded in the turn
    chunks,          \* the chunks textChunker has yielded in the turn
    streamableAudio, \* the turn's streamable value: values pushed, closed
    turnInfo,        \* what the call found on entry (history)
    \* ---- the network ----
    sendCalls,       \* every socket.send call, in call order (history)
    received,        \* every message event, in arrival order (history)
    \* ---- client: the onClick loop over readStreamableValue(tts) ----
    readPos,         \* values of the turn's stream already read
    finished,        \* the for-await loop of the turn has ended
    played,          \* per turn: audio handed to playChunk, in call order
    \* ---- client: the audio scheduler of AssistantButton.tsx ----
    route,           \* how the onClick loop hands audio on: "none" (no click
                     \* yet) | "queue" (base64Queue.push) | "call" (playChunk)
    playerTurn,      \* clicks on Ask so far
    reading,         \* the for-await loop of the last click is running
    frames,          \* audio frames the loops have received so far
    base64Queue,     \* `base64Queue.current`
    sourceQueue,     \* `sourceQueue.current`: ids of the sources pushed
    nextPlayTime,    \* `nextPlayTime.current`
    currentTime,     \* audioContext.currentTime, the output clock
    loops,           \* processQueue loops that are running
    decoding,        \* frames inside decodeAudioData
    started,         \* every source.start call, in call order (history)
    failed,          \* ids of the frames whose decoding failed (history)
    \* ---- client: the button (recording, thinking) ----
    thinking,        \* `thinking`
    isRecording,     \* `recording` of the component
    mediaRecorderInitialized,
    processing,      \* turns whose onstop handler has not finished
    thinkingTimers,  \* pending setTimeout(() => setThinking(false), 1500)
    clicks,          \* every click on the button, in order (history)
    \* ---- client: useMediaRecorder ----
    mounted,         \* the component using the hook is mounted
    recState,        \* mediaRecorder.state, "none" before initMediaRecorder
    recording,       \* `recording` of the hook
    chunkRef,        \* `chunkRef.current`: "undefined" | "empty" | "audio"
    events,          \* recorder events queued and not yet dispatched
    intervalIdRef,   \* `stopRecordingIntervalIdRef.current`, 0 for undefined
    intervals,       \* ids of the intervals that are set
    timer,           \* per stopRecording call: its `timer`
    promise,         \* per stopRecording call: state of the promise returned
    chunkOf,         \* the recording whose data chunkRef holds (history)
    resolvedWith,    \* per call: the recording it resolved with (history)
    returned,        \* what the call of the hook made in the last step
                     \* returned, "-" if that step was no call (history)
    \* ---- server: the speechToText route ----
    outputPath,      \* the file /tmp/input.webm names, 0 if there is none
    files,           \* the content of every file written, by number
    request          \* per POST request: where it is and what it has got

chunkVars == <<input, consumed, chunkBuf, yielded, chunkerPc>>

serverVars == <<socket, readyState, handlers, messages, pc, buffer,
                generated, chunks, streamableAudio, turnInfo>>

netVars == <<sendCalls, received>>

clientVars == <<readPos, finished, played>>

pipeVars == <<serverVars, netVars, clientVars>>

playerVars == <<route, playerTurn, reading, frames, base64Queue, sourceQueue,
                nextPlayTime, currentTime, loops, decoding, started, failed>>

buttonVars == <<thinking, isRecording, mediaRecorderInitialized, processing,
                thinkingTimers, clicks>>

recorderVars == <<mounted, recState, recording, chunkRef, events,
                  intervalIdRef, intervals, timer, promise, chunkOf,
                  resolvedWith, returned>>

uiVars == <<playerVars, buttonVars, recorderVars>>

sttVars == <<outputPath, files, request>>

vars == <<chunkVars, pipeVars, uiVars, sttVars>>

(***************************************************************************)
(* Strings                                                                 *)
(***************************************************************************)
\* The em dash of the source is written EM_DASH: it is one UTF-16 unit there.
splitters ==
    {".", ",", "?", "!", ";", ":", "EM_DASH", "-", "(", ")", "[", "]", "}"}

\* buffer.slice(-1): the last character, or "" for the empty string
SliceLast(s) == IF Len(s) = 0 THEN "" ELSE s[Len(s)]

\* text[0]: the first character, or undefined for the empty string
CharAt0(s) == IF Len(s) = 0 THEN "undefined" ELSE s[1]

\* text.slice(1)
Slice1(s) == IF Len(s) = 0 THEN <<>> ELSE SubSeq(s, 2, Len(s))

RECURSIVE Join(_)
\* concatenation of a sequence of strings
Join(ss) == IF ss = <<>> THEN <<>> ELSE Head(ss) \o Join(Tail(ss))

(***************************************************************************)
(* textChunker, one iteration of its for-await loop: the chunk it yields   *)
(* (a sequence of zero or one chunk) and the new buffer.                   *)
(***************************************************************************)
isEndOfSentence(buf) == SliceLast(buf) \in splitters

ifChunkStartsWithNewSentence(text) == CharAt0(text) \in splitters

\* faulty variant: the second branch keeps the whole delta in the buffer
ChunkerStepKeepsFirstChar(buf, text) ==
    IF isEndOfSentence(buf)
    THEN [yield |-> <<buf \o <<" ">>>>, buffer |-> text]
    ELSE IF ifChunkStartsWithNewSentence(text)
         THEN [yield |-> <<buf \o <<text[1]>> \o <<" ">>>>, buffer |-> text]
         ELSE [yield |-> <<>>, buffer |-> buf \o text]

\* faulty variant: the boundary character of the delta is not pulled into
\* the chunk
ChunkerStepNoPull(buf, text) ==
    IF isEndOfSentence(buf) \/ ifChunkStartsWithNewSentence(text)
    THEN [yield |-> <<buf \o <<" ">>>>, buffer |-> text]
    ELSE [yield |-> <<>>, buffer |-> buf \o text]

ChunkerStep(buf, text) ==
    IF isEndOfSentence(buf)
    THEN [yield |-> <<buf \o <<" ">>>>, buffer |-> text]
    ELSE IF ifChunkStartsWithNewSentence(text)
         THEN [yield |-> <<buf \o <<text[1]>> \o <<" ">>>>,
               buffer |-> Slice1(text)]
         ELSE [yield |-> <<>>, buffer |-> buf \o text]

\* faulty variant: the flush yields the buffer as it is
ChunkerFlushNoSpace(buf) ==
    IF buf # <<>> THEN <<buf>> ELSE <<>>

\* faulty variant: the flush yields a chunk for the empty buffer too
ChunkerFlushAlways(buf) == <<buf \o <<" ">>>>

\* after the loop: if (buffer) yield buffer + " "
ChunkerFlush(buf) ==
    IF buf # <<>> THEN <<buf \o <<" ">>>> ELSE <<>>

\* faulty variant: the buffer is flushed when generate throws
ChunkerThrowFlushes(buf) == ChunkerFlush(buf)

\* generate throws inside `for await (const text of generate(input))`: the
\* exception leaves the loop and textChunker, the flush after the loop is
\* not reached and nothing is yielded
ChunkerThrow(buf) == <<>>

(***************************************************************************)
(* ChunkSpec: textChunker over a bounded set of delta sequences            *)
(***************************************************************************)
MaxDeltas == 3

\* The deltas of the example of the chunk boundary property
Hello == <<"H", "e", "l", "l", "o">>
CommaWorld == <<",", " ", "w", "o", "r", "l", "d">>
BangHowAreYou ==
    <<"!", " ", "H", "o", "w", " ", "a", "r", "e", " ", "y", "o", "u">>
QuestionMark == <<"?">>
HelloDeltas == <<Hello, CommaWorld, BangHowAreYou, QuestionMark>>

\* The deltas of the example of the single chunk at the end of the stream
Its == <<"I", "t", "'", "s">>
SpaceSunny == <<" ", "s", "u", "n", "n", "y">>
SpaceTodayDot == <<" ", "t", "o", "d", "a", "y", ".">>
SunnyDeltas == <<Its, SpaceSunny, SpaceTodayDot>>

\* Representative deltas: empty, plain, boundary first / last / only, spaces
DeltaChoices ==
    { <<>>, <<"a">>, <<".">>, <<" ">>, <<"a", ".">>, <<",", "b">>,
      <<" ", "c">>, <<"-", "}">> }

DeltaSeqs ==
    UNION { [1..n -> DeltaChoices] : n \in 0..MaxDeltas }
        \cup {HelloDeltas, SunnyDeltas}

ChunkerStart ==
    /\ input \in DeltaSeqs
    /\ consumed = 0
    /\ chunkBuf = <<>>
    /\ yielded = <<>>
    /\ chunkerPc = "running"

\* one delta arrives from generate and goes through the loop body
ChunkerNext ==
    /\ chunkerPc = "running"
    /\ consumed < Len(input)
    /\ LET r == ChunkerStep(chunkBuf, input[consumed + 1]) IN
         /\ chunkBuf' = r.buffer
         /\ yielded' = yielded \o r.yield
    /\ consumed' = consumed + 1
    /\ UNCHANGED <<input, chunkerPc, pipeVars, uiVars, sttVars>>

\* the generator returns: the trailing flush, then textChunker returns
ChunkerEnd ==
    /\ chunkerPc = "running"
    /\ consumed = Len(input)
    /\ yielded' = yielded \o ChunkerFlush(chunkBuf)
    /\ chunkerPc' = "done"
    /\ UNCHANGED <<input, consumed, chunkBuf, pipeVars, uiVars, sttVars>>

(***************************************************************************)
(* The pipeline: textToSpeechInputStreaming, the connection, the consumer  *)
(***************************************************************************)
NTurns == 2     \* calls of textToSpeechInputStreaming (button clicks)
MaxGen == 2     \* deltas generate yields in one turn
MaxMsgs == 2    \* message events over all connections

Turn == 1..NTurns

\* every call creates at most one WebSocket
Conn == 1..NTurns

\* the delta of the generator in the pipeline: "a." is buffered when it comes
\* first, and makes textChunker yield "a. " when it follows another one and
\* when the stream ends
GenDeltas == { <<"a", ".">> }

\* ---- ai/rsc createStreamableValue ----
\* a value of the stream: the initial "" or a JSON.stringify'd object
EmptyString == [kind |-> "empty", audio |-> 0]

\* JSON.stringify({audio: data.audio, chars: ...}); audio 0 is null / ""
JSONStringify(audio) == [kind |-> "json", audio |-> audio]

\* createStreamableValue("")
createStreamableValue == [values |-> <<EmptyString>>, closed |-> FALSE]

NoStream == [values |-> <<>>, closed |-> FALSE]

\* streamable.update(v): throws once the stream is closed (the async handler
\* then rejects and nothing changes)
StreamUpdate(s, v) ==
    IF s.closed THEN s ELSE [s EXCEPT !.values = Append(@, v)]

\* streamable.done(): throws once the stream is closed
StreamDone(s) == IF s.closed THEN s ELSE [s EXCEPT !.closed = TRUE]

\* ---- ws WebSocket.send ----
\* CONNECTING: throws. OPEN: the frame goes out. CLOSING / CLOSED: the frame
\* is discarded without an exception (no callback is passed).
SendThrows(c) == readyState[c] = "CONNECTING"

\* faulty variant: frames are queued at the front
SocketSendFront(calls, c, frame) ==
    <<[frame EXCEPT !.conn = c, !.state = readyState[c]]>> \o calls

\* socket.send(JSON.stringify(frame)) on connection c, recorded with the
\* readyState the call met
SocketSend(calls, c, frame) ==
    Append(calls, [frame EXCEPT !.conn = c, !.state = readyState[c]])

\* {text: " ", voice_settings, xi_api_key}
bosMessage == [kind |-> "bos", text |-> <<" ">>, turn |-> 0, seq |-> 0,
               conn |-> 0, state |-> "", voice_settings |-> TRUE,
               try_trigger_generation |-> FALSE]

\* {text: chunk, try_trigger_generation: true}; seq is the position of the
\* chunk among those textChunker yielded in the turn (history)
ChunkFrame(t, k, chunk) ==
    [kind |-> "chunk", text |-> chunk, turn |-> t, seq |-> k, conn |-> 0,
     state |-> "", voice_settings |-> FALSE, try_trigger_generation |-> TRUE]

\* the frames that went out on connection c, in order
Wire(c) == SelectSeq(sendCalls, LAMBDA f : f.conn = c /\ f.state = "OPEN")

PipeInit ==
    /\ socket = 0
    /\ readyState = [c \in Conn |-> "UNUSED"]
    /\ handlers = [c \in Conn |-> 0]
    /\ messages = <<>>
    /\ pc = [t \in Turn |-> "idle"]
    /\ buffer = [t \in Turn |-> <<>>]
    /\ generated = [t \in Turn |-> <<>>]
    /\ chunks = [t \in Turn |-> <<>>]
    /\ streamableAudio = [t \in Turn |-> NoStream]
    /\ turnInfo = [t \in Turn |->
                     [found |-> "-", conn |-> 0, afterPrev |-> FALSE,
                      failed |-> FALSE, fresh |-> FALSE]]
    /\ sendCalls = <<>>
    /\ received = <<>>
    /\ readPos = [t \in Turn |-> 0]
    /\ finished = [t \in Turn |-> FALSE]
    /\ played = [t \in Turn |-> <<>>]

\* ---- generate: the conversation history ----
\* the transcript of turn t: "q" t times, so that turns differ
UserPrompt(t) == [i \in 1..t |-> "q"]

\* {role: "user", content: input}
UserMessage(t) == [role |-> "user", content |-> UserPrompt(t), turn |-> t]

\* {role: "system", content: completeResponse}
SystemMessage(t, completeResponse) ==
    [role |-> "system", content |-> completeResponse, turn |-> t]

\* faulty variant: the last entry is replaced
PushOverLast(ms, m) ==
    IF ms = <<>> THEN <<m>> ELSE [ms EXCEPT ![Len(ms)] = m]

\* messages.push(m)
Push(ms, m) == Append(ms, m)

\* ---- textToSpeechInputStreaming, up to its first await ----
\* faulty variant: a new connection for every call
NeedsNewSocketAlways == TRUE

\* faulty variant: a new connection unless the current one is OPEN
NeedsNewSocketUnlessOpen == socket = 0 \/ readyState[socket] # "OPEN"

\* !socket || socket.readyState === WebSocket.CLOSED
NeedsNewSocket == socket = 0 \/ readyState[socket] = "CLOSED"

\* The module's socket has fired 'error' and not yet 'close' (history): it
\* is CLOSING and the stream of the call whose handlers it carries is done,
\* which only onerror does to a socket that is not CLOSED.
SocketFailed ==
    /\ socket # 0
    /\ readyState[socket] = "CLOSING"
    /\ streamableAudio[handlers[socket]].closed

\* new WebSocket(url): the next connection never used
NewWebSocket ==
    CHOOSE c \in Conn :
        /\ readyState[c] = "UNUSED"
        /\ \A d \in Conn : d < c => readyState[d] # "UNUSED"

\* The call creates its stream, creates or keeps the socket, installs
\* onmessage / onerror / onclose on it (replacing those of an earlier call)
\* and enters the for-await loop, which starts textChunker and generate:
\* generate pushes the user message and awaits streamText.
Start(t) ==
    /\ pc[t] = "idle"
    /\ t > 1 => pc[t - 1] # "idle"
    /\ LET s == IF NeedsNewSocket THEN NewWebSocket ELSE socket IN
         /\ socket' = s
         /\ readyState' = IF NeedsNewSocket
                          THEN [readyState EXCEPT ![s] = "CONNECTING"]
                          ELSE readyState
         /\ handlers' = [handlers EXCEPT ![s] = t]
         /\ turnInfo' = [turnInfo EXCEPT ![t] =
                [found |-> IF socket = 0 THEN "null" ELSE readyState[socket],
                 conn |-> s,
                 afterPrev |-> \A u \in Turn :
                                  u < t => pc[u] \in {"returned", "failed"},
                 failed |-> SocketFailed,
                 fresh |-> NeedsNewSocket]]
    /\ streamableAudio' =
           [streamableAudio EXCEPT ![t] = createStreamableValue]
    /\ messages' = Push(messages, UserMessage(t))
    /\ pc' = [pc EXCEPT ![t] = "sending"]
    /\ UNCHANGED <<buffer, generated, chunks, netVars, clientVars, chunkVars,
                   uiVars, sttVars>>

\* the body of `for await (const chunk of textChunker(userPrompt))` for the
\* chunks in `out`: socket.send on the module's socket; an exception leaves
\* the loop for the catch block, which returns {tts: null}
SendLoop(t, out, after) ==
    /\ chunks' = [chunks EXCEPT ![t] = @ \o out]
    /\ IF out = <<>>
       THEN /\ sendCalls' = sendCalls
            /\ pc' = [pc EXCEPT ![t] = after]
       ELSE /\ sendCalls' = SocketSend(sendCalls, socket,
                                     ChunkFrame(t, Len(chunks[t]) + 1, out[1]))
            /\ pc' = [pc EXCEPT ![t] =
                        IF SendThrows(socket) THEN "failed" ELSE after]

\* generate yields the delta d; textChunker runs its loop body on it
Delta(t, d) ==
    /\ pc[t] = "sending"
    /\ Len(generated[t]) < MaxGen
    /\ generated' = [generated EXCEPT ![t] = Append(@, d)]
    /\ LET r == ChunkerStep(buffer[t], d) IN
         /\ buffer' = [buffer EXCEPT ![t] = r.buffer]
         /\ SendLoop(t, r.yield, "sending")
    /\ UNCHANGED <<messages, socket, readyState, handlers, streamableAudio,
                   turnInfo, received, clientVars, chunkVars, uiVars, sttVars>>

\* the text stream ends: generate pushes the system message and returns;
\* textChunker flushes its buffer and returns; the call returns
\* {tts: streamableAudio.value}
GenEnd(t) ==
    /\ pc[t] = "sending"
    /\ messages' = Push(messages, SystemMessage(t, Join(generated[t])))
    /\ SendLoop(t, ChunkerFlush(buffer[t]), "returned")
    /\ UNCHANGED <<socket, readyState, handlers, buffer, generated,
                   streamableAudio, turnInfo, received, clientVars, chunkVars,
                   uiVars, sttVars>>

\* streamText or the text stream throws: the for-await loop throws, the
\* catch block returns {tts: null}
GenFail(t) ==
    /\ pc[t] = "sending"
    /\ SendLoop(t, ChunkerThrow(buffer[t]), "failed")
    /\ UNCHANGED <<messages, socket, readyState, handlers, buffer, generated,
                   streamableAudio, turnInfo, received, clientVars, chunkVars,
                   uiVars, sttVars>>

\* ---- events of a connection ----
\* faulty variant: onopen sends nothing
OnOpenSendsNever(s, rs) == FALSE

\* if (socket && socket.readyState === WebSocket.OPEN), for the module's
\* socket s and the ready states rs
OnOpenSends(s, rs) == s # 0 /\ rs[s] = "OPEN"

\* 'open': onopen sends bosMessage if the module's socket is OPEN
OnOpen(c) ==
    /\ readyState[c] = "CONNECTING"
    /\ readyState' = [readyState EXCEPT ![c] = "OPEN"]
    /\ sendCalls' = IF OnOpenSends(socket, readyState')
                    THEN Append(sendCalls,
                           [bosMessage EXCEPT !.conn = socket,
                                              !.state = "OPEN"])
                    ELSE sendCalls
    /\ UNCHANGED <<messages, socket, handlers, pc, buffer, generated, chunks,
                   streamableAudio, turnInfo, received, clientVars, chunkVars,
                   uiVars, sttVars>>

\* the data of a message event: {audio: <base64>, isFinal: null}, where the
\* n-th message event carries the payload n; the closing
\* {audio: null, isFinal: true} (audio 0 is null); and data that is not JSON
\* (its payload only identifies it)
Messages ==
    { [json |-> TRUE, audio |-> Len(received) + 1, isFinal |-> FALSE],
      [json |-> TRUE, audio |-> 0, isFinal |-> TRUE],
      [json |-> FALSE, audio |-> Len(received) + 1, isFinal |-> FALSE] }

\* faulty variant: data that is not JSON is read as an object all the same
JSONParsesAlways(data) == TRUE

\* JSON.parse(event.data.toString()) returns; otherwise it throws, the async
\* handler rejects and the rest of it does not run
JSONParses(data) == data.json

\* faulty variant: every message is forwarded
ForwardsAlways(data) == TRUE

\* if (data.audio)
Forwards(data) == data.audio # 0

\* 'message': onmessage of the call that last installed it
OnMessage(c, data) ==
    /\ readyState[c] = "OPEN"
    /\ Len(received) < MaxMsgs
    /\ received' = Append(received,
                     [conn |-> c, to |-> handlers[c], json |-> data.json,
                      audio |-> data.audio, isFinal |-> data.isFinal])
    /\ streamableAudio' =
         IF JSONParses(data) /\ Forwards(data)
         THEN [streamableAudio EXCEPT ![handlers[c]] =
                  StreamUpdate(@, JSONStringify(data.audio))]
         ELSE streamableAudio
    /\ UNCHANGED <<messages, socket, readyState, handlers, pc, buffer,
                   generated, chunks, turnInfo, sendCalls, clientVars,
                   chunkVars, uiVars, sttVars>>

\* 'error' (failed handshake, protocol error): the socket is closing;
\* onerror calls streamableAudio.done()
OnError(c) ==
    /\ readyState[c] \in {"CONNECTING", "OPEN"}
    /\ readyState' = [readyState EXCEPT ![c] = "CLOSING"]
    /\ streamableAudio' =
         [streamableAudio EXCEPT ![handlers[c]] = StreamDone(@)]
    /\ UNCHANGED <<messages, socket, handlers, pc, buffer, generated, chunks,
                   turnInfo, netVars, clientVars, chunkVars, uiVars, sttVars>>

\* the peer's close frame arrives: the socket is closing, no handler runs
PeerCloses(c) ==
    /\ readyState[c] = "OPEN"
    /\ readyState' = [readyState EXCEPT ![c] = "CLOSING"]
    /\ UNCHANGED <<messages, socket, handlers, pc, buffer, generated, chunks,
                   streamableAudio, turnInfo, netVars, clientVars, chunkVars,
                   uiVars, sttVars>>

\* 'close' (clean or not): onclose calls streamableAudio.done()
OnClose(c) ==
    /\ readyState[c] \in {"OPEN", "CLOSING"}
    /\ readyState' = [readyState EXCEPT ![c] = "CLOSED"]
    /\ streamableAudio' =
         [streamableAudio EXCEPT ![handlers[c]] = StreamDone(@)]
    /\ UNCHANGED <<messages, socket, handlers, pc, buffer, generated, chunks,
                   turnInfo, netVars, clientVars, chunkVars, uiVars, sttVars>>

\* ---- the client: for await (const chunk of readStreamableValue(tts)) ----
\* JSON.parse(chunk).audio
ParsedAudio(chunk) == IF chunk.kind = "json" THEN chunk.audio ELSE 0

\* one iteration: skip a falsy chunk, else parse it and play its audio
Read(t) ==
    /\ pc[t] = "returned"
    /\ ~finished[t]
    /\ readPos[t] < Len(streamableAudio[t].values)
    /\ LET chunk == streamableAudio[t].values[readPos[t] + 1] IN
         played' = IF chunk # EmptyString /\ ParsedAudio(chunk) # 0
                   THEN [played EXCEPT ![t] = Append(@, ParsedAudio(chunk))]
                   ELSE played
    /\ readPos' = [readPos EXCEPT ![t] = @ + 1]
    /\ UNCHANGED <<serverVars, netVars, finished, chunkVars, uiVars, sttVars>>

\* the stream is done and drained: the loop ends
ReadEnd(t) ==
    /\ pc[t] = "returned"
    /\ ~finished[t]
    /\ streamableAudio[t].closed
    /\ readPos[t] = Len(streamableAudio[t].values)
    /\ finished' = [finished EXCEPT ![t] = TRUE]
    /\ UNCHANGED <<serverVars, netVars, readPos, played, chunkVars, uiVars,
                   sttVars>>

(***************************************************************************)
(* The audio scheduler: decode / playChunk of AssistantButton.tsx          *)
(***************************************************************************)
MaxFrames == 3        \* audio frames the client loops receive
MaxClock == 2         \* ticks of the output clock
MaxLoops == 2         \* processQueue loops running at once (one per render)
MaxPlayerTurns == 2   \* clicks on Ask

\* decoded durations (AudioBuffer.duration), in units of half a second
Durations == {1, 2, 4}

\* The n-th frame handed on by the loop: base64 audio of some duration, a
\* string that is not base64, or base64 of bytes that are not audio (an odd
\* number of bytes for createAudioBuffer, undecodable for decodeAudioData).
Frames(n) ==
    { [id |-> n, payload |-> "audio", duration |-> d] : d \in Durations }
    \cup { [id |-> n, payload |-> p, duration |-> 0] :
             p \in {"notBase64", "corrupt"} }

\* atob(base64) throws InvalidCharacterError
AtobThrows(f) == f.payload = "notBase64"

\* createAudioBuffer: data.getInt16(i, true) throws RangeError on the last
\* byte of an odd-length buffer
CreateAudioBufferThrows(f) == f.payload = "corrupt"

\* audioContext.decodeAudioData(bytes.buffer, success): no error callback,
\* the success callback is never called
DecodeAudioDataFails(f) == f.payload = "corrupt"

\* faulty variant: the cursor is always moved to the clock
StartTimeIsNow(npt, now) == now

\* if (nextPlayTime.current < currentTime) nextPlayTime.current = currentTime
StartTime(npt, now) == IF npt < now THEN now ELSE npt

\* faulty variant: the cursor stays where the source starts
AdvanceNot(at, duration) == at

\* nextPlayTime.current += audioBuffer.duration
Advance(at, duration) == at + duration

\* source.start(nextPlayTime.current) for frame f, with the cursor at npt
\* before the call (history: `before` and `now` are what the call met; no
\* code calls source.stop() on a scheduled source). schedulePlaySource, which
\* decode() calls, adds the 'ended' listener; the callback of playChunk
\* calls source.start itself and adds none.
Slot(f, npt, via) ==
    [id |-> f.id, at |-> StartTime(npt, currentTime), duration |-> f.duration,
     before |-> npt, now |-> currentTime, via |-> via, stopped |-> FALSE,
     onended |-> via = "queue"]

\* decode(): takes the head of base64Queue, schedules it and calls itself;
\* returns on an empty queue; an exception leaves every caller
RECURSIVE Decode(_)
Decode(s) ==
    IF s.queue = <<>> THEN s
    ELSE LET f == Head(s.queue) IN
         IF AtobThrows(f) \/ CreateAudioBufferThrows(f)
         THEN [s EXCEPT !.queue = Tail(s.queue), !.threw = TRUE,
                        !.failed = @ \cup {f.id}]
         ELSE LET slot == Slot(f, s.nextPlayTime, "queue") IN
              Decode([s EXCEPT !.queue = Tail(s.queue),
                               !.sourceQueue = Append(@, f.id),
                               !.started = Append(@, slot),
                               !.nextPlayTime =
                                   Advance(slot.at, f.duration)])

PlayerInit ==
    /\ route = "none"
    /\ playerTurn = 0
    /\ reading = FALSE
    /\ frames = 0
    /\ base64Queue = <<>>
    /\ sourceQueue = <<>>
    /\ nextPlayTime = 0
    /\ currentTime = 0
    /\ loops = 1
    /\ decoding = {}
    /\ started = <<>>
    /\ failed = {}

\* a click on Ask: the handler awaits the stream and enters its for-await
\* loop; r is the loop body of the component (the same at every click)
PlayerClick(r) ==
    /\ playerTurn < MaxPlayerTurns
    /\ route \in {"none", r}
    /\ route' = r
    /\ playerTurn' = playerTurn + 1
    /\ reading' = TRUE
    /\ UNCHANGED <<frames, base64Queue, sourceQueue, nextPlayTime,
                   currentTime, loops, decoding, started, failed>>
    /\ UNCHANGED <<chunkVars, pipeVars, sttVars, buttonVars, recorderVars>>

\* faulty variant: the frame is put at the head of the queue
QueueUnshift(q, f) == <<f>> \o q

\* base64Queue.current.push(value)
QueuePush(q, f) == Append(q, f)

\* loop body: base64Queue.current.push(value)
QueueChunk(f) ==
    /\ route = "queue" /\ reading
    /\ frames < MaxFrames
    /\ frames' = frames + 1
    /\ base64Queue' = QueuePush(base64Queue, f)
    /\ UNCHANGED <<route, playerTurn, reading, sourceQueue, nextPlayTime,
                   currentTime, loops, decoding, started, failed>>
    /\ UNCHANGED <<chunkVars, pipeVars, sttVars, buttonVars, recorderVars>>

\* loop body: playChunk(chunkObject.audio), up to decodeAudioData; an
\* exception of atob leaves the loop and the click handler
PlayChunk(f) ==
    /\ route = "call" /\ reading
    /\ frames < MaxFrames
    /\ frames' = frames + 1
    /\ IF AtobThrows(f)
       THEN /\ reading' = FALSE
            /\ failed' = failed \cup {f.id}
            /\ decoding' = decoding
       ELSE /\ decoding' = decoding \cup {f}
            /\ UNCHANGED <<reading, failed>>
    /\ UNCHANGED <<route, playerTurn, base64Queue, sourceQueue, nextPlayTime,
                   currentTime, loops, started>>
    /\ UNCHANGED <<chunkVars, pipeVars, sttVars, buttonVars, recorderVars>>

\* decodeAudioData of frame f completes: its callback schedules the source
DecodeAudioDataDone(f) ==
    /\ f \in decoding
    /\ decoding' = decoding \ {f}
    /\ IF DecodeAudioDataFails(f)
       THEN /\ failed' = failed \cup {f.id}
            /\ UNCHANGED <<started, nextPlayTime>>
       ELSE LET slot == Slot(f, nextPlayTime, "call") IN
            /\ started' = Append(started, slot)
            /\ nextPlayTime' = Advance(slot.at, f.duration)
            /\ failed' = failed
    /\ UNCHANGED <<route, playerTurn, reading, frames, base64Queue,
                   sourceQueue, currentTime, loops>>
    /\ UNCHANGED <<chunkVars, pipeVars, sttVars, buttonVars, recorderVars>>

\* one iteration of a processQueue loop that finds the queue non-empty:
\* decode() drains it; an exception of decode() ends the loop
ProcessQueue ==
    /\ loops > 0
    /\ base64Queue # <<>>
    /\ LET r == Decode([queue |-> base64Queue, sourceQueue |-> sourceQueue,
                        started |-> started, nextPlayTime |-> nextPlayTime,
                        failed |-> failed, threw |-> FALSE]) IN
         /\ base64Queue' = r.queue
         /\ sourceQueue' = r.sourceQueue
         /\ started' = r.started
         /\ nextPlayTime' = r.nextPlayTime
         /\ failed' = r.failed
         /\ loops' = IF r.threw THEN loops - 1 ELSE loops
    /\ UNCHANGED <<route, playerTurn, reading, frames, currentTime, decoding>>
    /\ UNCHANGED <<chunkVars, pipeVars, sttVars, buttonVars, recorderVars>>

\* the component renders again: its body calls processQueue()
Render ==
    /\ loops < MaxLoops
    /\ loops' = loops + 1
    /\ UNCHANGED <<route, playerTurn, reading, frames, base64Queue,
                   sourceQueue, nextPlayTime, currentTime, decoding, started,
                   failed>>
    /\ UNCHANGED <<chunkVars, pipeVars, sttVars, buttonVars, recorderVars>>

\* the output clock advances
ClockTick ==
    /\ currentTime < MaxClock
    /\ currentTime' = currentTime + 1
    /\ UNCHANGED <<route, playerTurn, reading, frames, base64Queue,
                   sourceQueue, nextPlayTime, loops, decoding, started,
                   failed>>
    /\ UNCHANGED <<chunkVars, pipeVars, sttVars, buttonVars, recorderVars>>

\* the slot of the source with id n
SlotOf(n) == CHOOSE s \in {started[i] : i \in 1..Len(started)} : s.id = n

\* 'ended' of the oldest source of decode(): sourceEnded shifts sourceQueue
SourceEnded ==
    /\ sourceQueue # <<>>
    /\ SlotOf(Head(sourceQueue)).at + SlotOf(Head(sourceQueue)).duration
           <= currentTime
    /\ sourceQueue' = Tail(sourceQueue)
    /\ UNCHANGED <<route, playerTurn, reading, frames, base64Queue,
                   nextPlayTime, currentTime, loops, decoding, started,
                   failed>>
    /\ UNCHANGED <<chunkVars, pipeVars, sttVars, buttonVars, recorderVars>>

PlayerNext ==
    \/ \E r \in {"queue", "call"} : PlayerClick(r)
    \/ \E f \in Frames(frames + 1) : QueueChunk(f)
    \/ \E f \in Frames(frames + 1) : PlayChunk(f)
    \/ \E f \in decoding : DecodeAudioDataDone(f)
    \/ ProcessQueue
    \/ Render
    \/ ClockTick
    \/ SourceEnded

(***************************************************************************)
(* The button: onClick, startRecording, stopRecording of the component     *)
(***************************************************************************)
MaxClicks == 6    \* clicks on the button

ButtonInit ==
    /\ thinking = FALSE
    /\ isRecording = FALSE
    /\ mediaRecorderInitialized = FALSE
    /\ processing = 0
    /\ thinkingTimers = 0
    /\ clicks = <<>>

\* getUserMedia has resolved and the MediaRecorder is set up
MediaRecorderReady ==
    /\ ~mediaRecorderInitialized
    /\ mediaRecorderInitialized' = TRUE
    /\ UNCHANGED <<thinking, isRecording, processing, thinkingTimers, clicks>>
    /\ UNCHANGED <<chunkVars, pipeVars, sttVars, playerVars, recorderVars>>

\* if (thinking) { toast("Please wait for the assistant to finish."); ... }
ClickRejected == thinking

\* what a click did (history): whether a turn was in Processing, whether it
\* was answered by a toast only, whether it started a recording or a turn
ClickRecord(rejected, startsRecording, startsTurn) ==
    [busy |-> processing > 0, rejected |-> rejected,
     startsRecording |-> startsRecording, startsTurn |-> startsTurn]

\* onClick of the button. While thinking: toast, a timer that will reset
\* `thinking`, return. Without a recorder: toast, return. Else
\* stopRecording() (setThinking(true), mediaRecorder.stop(), whose onstop
\* handler processes the turn) or startRecording().
Click ==
    /\ Len(clicks) < MaxClicks
    /\ IF ClickRejected
       THEN /\ thinkingTimers' = thinkingTimers + 1
            /\ clicks' = Append(clicks, ClickRecord(TRUE, FALSE, FALSE))
            /\ UNCHANGED <<thinking, isRecording, processing>>
       ELSE IF ~mediaRecorderInitialized
       THEN /\ clicks' = Append(clicks, ClickRecord(TRUE, FALSE, FALSE))
            /\ UNCHANGED <<thinking, isRecording, processing, thinkingTimers>>
       ELSE IF isRecording
       THEN /\ thinking' = TRUE
            /\ isRecording' = FALSE
            /\ processing' = processing + 1
            /\ clicks' = Append(clicks, ClickRecord(FALSE, FALSE, TRUE))
            /\ UNCHANGED thinkingTimers
       ELSE /\ isRecording' = TRUE
            /\ clicks' = Append(clicks, ClickRecord(FALSE, TRUE, FALSE))
            /\ UNCHANGED <<thinking, processing, thinkingTimers>>
    /\ UNCHANGED mediaRecorderInitialized
    /\ UNCHANGED <<chunkVars, pipeVars, sttVars, playerVars, recorderVars>>

\* setTimeout(() => setThinking(false), 1500) fires
ThinkingTimeout ==
    /\ thinkingTimers > 0
    /\ thinkingTimers' = thinkingTimers - 1
    /\ thinking' = FALSE
    /\ UNCHANGED <<isRecording, mediaRecorderInitialized, processing, clicks>>
    /\ UNCHANGED <<chunkVars, pipeVars, sttVars, playerVars, recorderVars>>

\* the onstop handler of a turn (speech to text, chat, playback) finishes;
\* it does not touch `thinking`
ProcessingDone ==
    /\ processing > 0
    /\ processing' = processing - 1
    /\ UNCHANGED <<thinking, isRecording, mediaRecorderInitialized,
                   thinkingTimers, clicks>>
    /\ UNCHANGED <<chunkVars, pipeVars, sttVars, playerVars, recorderVars>>

ButtonNext ==
    \/ MediaRecorderReady
    \/ Click
    \/ ThinkingTimeout
    \/ ProcessingDone

(***************************************************************************)
(* useMediaRecorder: startRecording, stopRecording and its polling         *)
(***************************************************************************)
MaxStops == 2     \* calls of stopRecording that stop a recorder

interval == 100   \* ms between two polls
timeout == 3000   \* ms of `timer` after which a poll rejects

StopCall == 1..MaxStops

\* calls of stopRecording that have returned a promise
Stopped == {k \in StopCall : promise[k] # "none"}

RecorderInit ==
    /\ mounted = TRUE
    /\ recState = "none"
    /\ recording = FALSE
    /\ chunkRef = "undefined"
    /\ events = <<>>
    /\ intervalIdRef = 0
    /\ intervals = {}
    /\ timer = [k \in StopCall |-> 0]
    /\ promise = [k \in StopCall |-> "none"]
    /\ chunkOf = 0
    /\ resolvedWith = [k \in StopCall |-> 0]
    /\ returned = "-"

\* the state of the hook that calls and events read and write
hookState == <<mounted, recState, recording, chunkRef, events, intervalIdRef,
               intervals, timer, promise, chunkOf, resolvedWith>>

\* faulty variant: initMediaRecorder never finds a recorder
AlreadyInitializedNever(state) == FALSE

\* if (mediaRecorderRef.current), with "none" for the unset ref
AlreadyInitialized(state) == state # "none"

\* initMediaRecorder: createMediaRecorder resolves, onstart and
\* ondataavailable are installed, the recorder is returned
InitMediaRecorder ==
    /\ mounted
    /\ ~AlreadyInitialized(recState)
    /\ recState' = "inactive"
    /\ returned' = "init: recorder"
    /\ UNCHANGED <<mounted, recording, chunkRef, events, intervalIdRef,
                   intervals, timer, promise, chunkOf, resolvedWith>>
    /\ UNCHANGED <<chunkVars, pipeVars, sttVars, playerVars, buttonVars>>

\* initMediaRecorder with a recorder in the ref: a warning, return
InitAlready ==
    /\ mounted
    /\ AlreadyInitialized(recState)
    /\ returned' = "init: undefined, already initialized"
    /\ UNCHANGED hookState
    /\ UNCHANGED <<chunkVars, pipeVars, sttVars, playerVars, buttonVars>>

\* createMediaRecorder rejects with a CreateMediaRecorderError
CreateMediaErrorCodes == {"notSupported", "permissionDenied"}

\* initMediaRecorder: createMediaRecorder rejects; the catch block shows a
\* toast and returns undefined
InitFails(errorCode) ==
    /\ mounted
    /\ ~AlreadyInitialized(recState)
    /\ returned' = "init: undefined, " \o errorCode
    /\ UNCHANGED hookState
    /\ UNCHANGED <<chunkVars, pipeVars, sttVars, playerVars, buttonVars>>

\* startRecording with no recorder in the ref: a warning, return
StartNoRecorder ==
    /\ mounted
    /\ recState = "none"
    /\ returned' = "start: no recorder"
    /\ UNCHANGED hookState
    /\ UNCHANGED <<chunkVars, pipeVars, sttVars, playerVars, buttonVars>>

\* startRecording: mediaRecorder.start() queues 'start' (on a recorder that
\* is recording it throws and nothing changes), setRecording(true)
HookStartRecording ==
    /\ mounted
    /\ recState = "inactive"
    /\ recState' = "recording"
    /\ recording' = TRUE
    /\ events' = Append(events, "start")
    /\ returned' = "start"
    /\ UNCHANGED <<mounted, chunkRef, intervalIdRef, intervals, timer,
                   promise, chunkOf, resolvedWith>>
    /\ UNCHANGED <<chunkVars, pipeVars, sttVars, playerVars, buttonVars>>

\* faulty variant: only the absent recorder is refused
StopRejectsAbsentOnly(state) == state = "none"

\* if (mediaRecorder?.state !== 'recording'), with "none" for the unset ref
StopRejects(state) == state # "recording"

\* stopRecording with no recorder or a recorder that is not recording: a
\* warning, return
StopNotRecording ==
    /\ mounted
    /\ StopRejects(recState)
    /\ returned' = "stop: undefined"
    /\ UNCHANGED hookState
    /\ UNCHANGED <<chunkVars, pipeVars, sttVars, playerVars, buttonVars>>

\* stopRecording on a recording recorder: mediaRecorder.stop() queues
\* 'dataavailable' with the blob recorded (empty or not); the promise is
\* created with timer = 0 and its interval is stored in the ref
HookStopRecording(blob) ==
    /\ mounted
    /\ ~StopRejects(recState)
    /\ Stopped # StopCall
    /\ LET k == Cardinality(Stopped) + 1 IN
         /\ promise' = [promise EXCEPT ![k] = "pending"]
         /\ timer' = [timer EXCEPT ![k] = 0]
         /\ intervalIdRef' = k
         /\ intervals' = intervals \cup {k}
    /\ recState' = "inactive"
    /\ events' = Append(events, blob)
    /\ returned' = "stop: promise"
    /\ UNCHANGED <<mounted, recording, chunkRef, chunkOf, resolvedWith>>
    /\ UNCHANGED <<chunkVars, pipeVars, sttVars, playerVars, buttonVars>>

\* the recording whose 'dataavailable' is the first one queued: every call
\* that stopped the recorder queued one, in order
NextData ==
    Cardinality(Stopped) + 1
        - Len(SelectSeq(events, LAMBDA e : e # "start"))

\* the oldest queued recorder event is dispatched: onstart clears chunkRef,
\* ondataavailable stores e.data
RecorderEvent ==
    /\ events # <<>>
    /\ events' = Tail(events)
    /\ chunkRef' = IF Head(events) = "start" THEN "undefined" ELSE Head(events)
    /\ chunkOf' = IF Head(events) = "start" THEN 0 ELSE NextData
    /\ returned' = "-"
    /\ UNCHANGED <<mounted, recState, recording, intervalIdRef, intervals,
                   timer, promise, resolvedWith>>
    /\ UNCHANGED <<chunkVars, pipeVars, sttVars, playerVars, buttonVars>>

\* timer >= timeout
TimedOut(t) == t >= timeout

\* faulty variant: the blob is handed on whatever its size
ResolutionWithChunk(chunk) ==
    IF chunk = "audio" THEN "resolved blob" ELSE "resolved empty blob"

\* audioBlob.size > 0 ? resolve(audioBlob) : resolve(undefined)
Resolution(chunk) ==
    IF chunk = "audio" THEN "resolved blob" ELSE "resolved undefined"

\* resolve / reject settle a pending promise and do nothing to a settled one
Settle(k, outcome) ==
    IF promise[k] = "pending" THEN [promise EXCEPT ![k] = outcome] ELSE promise

\* the callback of the interval of call k: with a chunk, clearInterval(ref),
\* setRecording(false), resolve(blob or undefined); else on timeout
\* clearInterval(ref), setRecording(false), reject; else timer += interval
IntervalTick(k) ==
    /\ k \in intervals
    /\ IF chunkRef # "undefined"
       THEN /\ intervals' = intervals \ {intervalIdRef}
            /\ recording' = FALSE
            /\ promise' = Settle(k, Resolution(chunkRef))
            /\ resolvedWith' = IF promise[k] = "pending"
                               THEN [resolvedWith EXCEPT ![k] = chunkOf]
                               ELSE resolvedWith
            /\ timer' = timer
       ELSE IF TimedOut(timer[k])
       THEN /\ intervals' = intervals \ {intervalIdRef}
            /\ recording' = FALSE
            /\ promise' = Settle(k, "rejected")
            /\ UNCHANGED <<timer, resolvedWith>>
       ELSE /\ timer' = [timer EXCEPT ![k] = @ + interval]
            /\ UNCHANGED <<intervals, recording, promise, resolvedWith>>
    /\ returned' = "-"
    /\ UNCHANGED <<mounted, recState, chunkRef, events, intervalIdRef,
                   chunkOf>>
    /\ UNCHANGED <<chunkVars, pipeVars, sttVars, playerVars, buttonVars>>

\* clearChunk
ClearChunk ==
    /\ mounted
    /\ chunkRef # "undefined"
    /\ chunkRef' = "undefined"
    /\ chunkOf' = 0
    /\ returned' = "-"
    /\ UNCHANGED <<mounted, recState, recording, events, intervalIdRef,
                   intervals, timer, promise, resolvedWith>>
    /\ UNCHANGED <<chunkVars, pipeVars, sttVars, playerVars, buttonVars>>

\* the component unmounts: the effect's cleanup clears the interval of the ref
Unmount ==
    /\ mounted
    /\ mounted' = FALSE
    /\ intervals' = intervals \ {intervalIdRef}
    /\ returned' = "-"
    /\ UNCHANGED <<recState, recording, chunkRef, events, intervalIdRef,
                   timer, promise, chunkOf, resolvedWith>>
    /\ UNCHANGED <<chunkVars, pipeVars, sttVars, playerVars, buttonVars>>

RecorderNext ==
    \/ InitMediaRecorder
    \/ InitAlready
    \/ \E errorCode \in CreateMediaErrorCodes : InitFails(errorCode)
    \/ StartNoRecorder
    \/ HookStartRecording
    \/ StopNotRecording
    \/ \E blob \in {"empty", "audio"} : HookStopRecording(blob)
    \/ RecorderEvent
    \/ \E k \in StopCall : IntervalTick(k)
    \/ ClearChunk
    \/ Unmount

UiInit == PlayerInit /\ ButtonInit /\ RecorderInit

(***************************************************************************)
(* The speechToText route: POST and convertAudioToText                     *)
(***************************************************************************)
NRequests == 3    \* POST requests to the route

Request == 1..NRequests

\* every writeFileSync makes at most one new file
File == 1..NRequests

\* Buffer.from(req.audio, "base64") of request r: every request sends its
\* own recording
Audio(r) == [recordingOf |-> r]

\* response.text of openai.audio.transcriptions.create for the content
\* uploaded
Transcription(content) == [textOf |-> content]

NoContent == [recordingOf |-> 0]

SttInit ==
    /\ outputPath = 0
    /\ files = [f \in File |-> NoContent]
    /\ request = [r \in Request |->
                    [pc |-> "idle", fd |-> 0, uploaded |-> NoContent,
                     status |-> 0, result |-> Transcription(NoContent),
                     error |-> "-"]]

\* the file fs.writeFileSync(outputPath, ...) writes with the path unused
NewFile ==
    CHOOSE f \in File :
        /\ files[f] = NoContent
        /\ \A g \in File : g < f => files[g] # NoContent

\* fs.writeFileSync(outputPath, audioData): the file the path names is
\* truncated and written; a new file is made if there is none
WriteFileSync(path) == IF path = 0 THEN NewFile ELSE path

\* POST up to the await in convertAudioToText: the body is parsed, the
\* audio is written to /tmp/input.webm, fs.createReadStream(outputPath) is
\* handed to openai.audio.transcriptions.create
Post(r) ==
    /\ request[r].pc = "idle"
    /\ LET f == WriteFileSync(outputPath) IN
         /\ outputPath' = f
         /\ files' = [files EXCEPT ![f] = Audio(r)]
    /\ request' = [request EXCEPT ![r].pc = "opening"]
    /\ UNCHANGED <<chunkVars, pipeVars, uiVars>>

\* the read stream opens the path: with no file there the stream fails with
\* ENOENT, create rejects and POST answers 500 from its catch block
StreamOpen(r) ==
    /\ request[r].pc = "opening"
    /\ request' = IF outputPath = 0
                  THEN [request EXCEPT ![r].pc = "done", ![r].status = 500,
                                       ![r].error = "ENOENT: open"]
                  ELSE [request EXCEPT ![r].pc = "reading",
                                       ![r].fd = outputPath]
    /\ UNCHANGED <<outputPath, files, chunkVars, pipeVars, uiVars>>

\* the read stream reads the file it has opened and the request body is
\* sent: what is in the file then is what is uploaded
StreamRead(r) ==
    /\ request[r].pc = "reading"
    /\ request' = [request EXCEPT ![r].pc = "transcribing",
                                  ![r].uploaded = files[request[r].fd]]
    /\ UNCHANGED <<outputPath, files, chunkVars, pipeVars, uiVars>>

\* create resolves: fs.unlinkSync(outputPath), which throws ENOENT when the
\* path names no file (POST then answers 500), and otherwise removes the
\* name; then POST answers 200 with response.text
Transcribed(r) ==
    /\ request[r].pc = "transcribing"
    /\ IF outputPath = 0
       THEN /\ request' = [request EXCEPT ![r].pc = "done",
                                          ![r].status = 500,
                                          ![r].error = "ENOENT: unlink"]
            /\ outputPath' = outputPath
       ELSE /\ request' = [request EXCEPT
                             ![r].pc = "done", ![r].status = 200,
                             ![r].result =
                                 Transcription(request[r].uploaded)]
            /\ outputPath' = 0
    /\ UNCHANGED <<files, chunkVars, pipeVars, uiVars>>

\* create rejects (the API answers with an error): POST answers 500 from
\* its catch block, fs.unlinkSync is not reached
TranscriptionFails(r) ==
    /\ request[r].pc = "transcribing"
    /\ request' = [request EXCEPT ![r].pc = "done", ![r].status = 500,
                                  ![r].error = "API"]
    /\ UNCHANGED <<outputPath, files, chunkVars, pipeVars, uiVars>>

SttNext ==
    \/ \E r \in Request : Post(r)
    \/ \E r \in Request : StreamOpen(r)
    \/ \E r \in Request : StreamRead(r)
    \/ \E r \in Request : Transcribed(r)
    \/ \E r \in Request : TranscriptionFails(r)

(***************************************************************************)
(* Specifications                                                          *)
(***************************************************************************)
\* textChunker alone: nothing of the pipeline runs
ChunkerIdle ==
    /\ input = <<>>
    /\ consumed = 0
    /\ chunkBuf = <<>>
    /\ yielded = <<>>
    /\ chunkerPc = "done"

Init == ChunkerIdle /\ PipeInit /\ UiInit /\ SttInit

Next ==
    \/ \E t \in Turn : Start(t)
    \/ \E t \in Turn, d \in GenDeltas : Delta(t, d)
    \/ \E t \in Turn : GenEnd(t)
    \/ \E t \in Turn : GenFail(t)
    \/ \E c \in Conn : OnOpen(c)
    \/ \E c \in Conn, data \in Messages : OnMessage(c, data)
    \/ \E c \in Conn : OnError(c)
    \/ \E c \in Conn : PeerCloses(c)
    \/ \E c \in Conn : OnClose(c)
    \/ \E t \in Turn : Read(t)
    \/ \E t \in Turn : ReadEnd(t)

Spec == Init /\ [][Next]_vars

ChunkInit == ChunkerStart /\ PipeInit /\ UiInit /\ SttInit

ChunkNext == ChunkerNext \/ ChunkerEnd

ChunkSpec == ChunkInit /\ [][ChunkNext]_vars

\* Scheduling: the generator ends, the client loop runs, a connecting socket
\* opens or fails, and the service closes every connection in the end.
Fairness ==
    /\ \A t \in Turn : WF_vars(GenEnd(t))
    /\ \A t \in Turn : WF_vars(Read(t))
    /\ \A t \in Turn : WF_vars(ReadEnd(t))
    /\ \A c \in Conn : WF_vars(OnOpen(c) \/ OnError(c))
    /\ \A c \in Conn : WF_vars(OnClose(c))

FairSpec == Spec /\ Fairness

\* the audio scheduler, the button and the recorder hook, each on its own
PlayerSpec == Init /\ [][PlayerNext]_vars

ButtonSpec == Init /\ [][ButtonNext]_vars

RecorderSpec == Init /\ [][RecorderNext]_vars

\* the speechToText route on its own
SttSpec == Init /\ [][SttNext]_vars

(***************************************************************************)
(* C1  Lossless reassembly                                                 *)
(***************************************************************************)
\* a chunk without the one trailing space textChunker appended to it
StripAppendedSpace(chunk) ==
    IF Len(chunk) > 0 /\ chunk[Len(chunk)] = " "
    THEN SubSeq(chunk, 1, Len(chunk) - 1)
    ELSE chunk

Reassembled(cs) ==
    Join([i \in 1..Len(cs) |-> StripAppendedSpace(cs[i])])

\* C1: once textChunker has returned, the chunks it yielded, each without its
\* appended trailing space, concatenate to exactly the concatenation of the
\* deltas; and every chunk does end with that space.
C1_LosslessReassembly ==
    chunkerPc = "done" =>
        /\ Reassembled(yielded) = Join(input)
        /\ \A i \in 1..Len(yielded) : SliceLast(yielded[i]) = " "

\* a finished run that cut the text at least twice, once on a boundary
\* character that started a delta
C1_Witness ==
    /\ chunkerPc = "done"
    /\ Len(yielded) >= 2
    /\ \E i \in 1..Len(input) : ifChunkStartsWithNewSentence(input[i])
    /\ Join(input) # <<>>

(***************************************************************************)
(* C2  Chunk boundary example                                              *)
(***************************************************************************)
HelloWorldBang ==
    <<"H", "e", "l", "l", "o", ",", " ", "w", "o", "r", "l", "d", "!", " ">>
HowAreYouQ ==
    <<"H", "o", "w", " ", "a", "r", "e", " ", "y", "o", "u", "?", " ">>

\* C2 as stated: the example yields the two chunks "Hello, world! " and
\* "How are you? "
C2_AsStated ==
    (input = HelloDeltas /\ chunkerPc = "done")
        => yielded = <<HelloWorldBang, HowAreYouQ>>

\* C2 amended: the example yields three chunks, "Hello, ", " world! " and
\* " How are you? ", in that order, each ending with one appended space.
C2_HelloChunks ==
    (input = HelloDeltas /\ chunkerPc = "done")
        => yielded = << <<"H", "e", "l", "l", "o", ",", " ">>,
                        <<" ", "w", "o", "r", "l", "d", "!", " ">>,
                        <<" ", "H", "o", "w", " ", "a", "r", "e", " ",
                          "y", "o", "u", "?", " ">> >>

C2_Witness == input = HelloDeltas /\ chunkerPc = "done"

(***************************************************************************)
(* Claims about the pipeline                                               *)
(***************************************************************************)
IsPrefix(a, b) == Len(a) <= Len(b) /\ a = SubSeq(b, 1, Len(a))

\* the socket.send calls of the send loop of turn t, in call order
ChunkCalls(t) ==
    SelectSeq(sendCalls, LAMBDA f : f.kind = "chunk" /\ f.turn = t)

\* C3: the send loop hands the chunks of a turn to socket.send one by one in
\* the order textChunker yielded them, each exactly once, and the next step
\* of the loop can always be taken, whatever has or has not been received.
C3_SentInOrderWithoutWaiting ==
    \A t \in Turn :
        /\ Len(ChunkCalls(t)) = Len(chunks[t])
        /\ \A i \in 1..Len(ChunkCalls(t)) :
              /\ ChunkCalls(t)[i].seq = i
              /\ ChunkCalls(t)[i].text = chunks[t][i]
        /\ pc[t] = "sending" => ENABLED GenEnd(t)

\* two chunks of a turn are on the wire and no message has arrived yet
C3_Witness ==
    \E t \in Turn :
        /\ Len(ChunkCalls(t)) >= 2
        /\ \A i \in 1..Len(ChunkCalls(t)) : ChunkCalls(t)[i].state = "OPEN"
        /\ received = <<>>

\* C4 as stated: every chunk goes out as {text, try_trigger_generation:
\* true}, and once the chunker's sequence has ended one end-of-stream frame
\* {text: ""} of the turn has been sent after its last chunk frame.
C4_EndOfStreamFrame ==
    \A t \in Turn :
        /\ \A i \in 1..Len(ChunkCalls(t)) :
              ChunkCalls(t)[i].try_trigger_generation
        /\ pc[t] = "returned" =>
              \E i \in 1..Len(sendCalls) :
                  /\ sendCalls[i].kind = "eos"
                  /\ sendCalls[i].text = <<>>
                  /\ sendCalls[i].turn = t
                  /\ \A j \in 1..Len(sendCalls) :
                        (sendCalls[j].kind = "chunk" /\ sendCalls[j].turn = t)
                            => j < i

\* the initialization frames that went out on connection c
InitFrames(c) == SelectSeq(Wire(c), LAMBDA f : f.kind = "bos")

\* turn t came after the turns before it had returned, found the socket
\* OPEN, and no later turn has started
ReusesOpenSession(t) ==
    /\ t > 1
    /\ turnInfo[t].found = "OPEN"
    /\ turnInfo[t].afterPrev
    /\ \A u \in Turn : u > t => pc[u] = "idle"

\* C5: a turn that follows another one and finds the session OPEN uses the
\* connection of the turn before it; that connection has carried exactly one
\* initialization frame, its first frame, and all chunks of the turn go to it.
C5_ChannelReuse ==
    \A t \in Turn :
        ReusesOpenSession(t) =>
            LET c == turnInfo[t].conn IN
            /\ c = turnInfo[t - 1].conn
            /\ Len(InitFrames(c)) = 1
            /\ Wire(c)[1].kind = "bos"
            /\ \A i \in 1..Len(ChunkCalls(t)) : ChunkCalls(t)[i].conn = c

\* the second of two consecutive turns has sent a chunk on the reused session
C5_Witness ==
    \E t \in Turn :
        /\ ReusesOpenSession(t)
        /\ pc[t] = "returned"
        /\ Len(ChunkCalls(t)) >= 1
        /\ \A i \in 1..Len(ChunkCalls(t)) : ChunkCalls(t)[i].state = "OPEN"

\* C6 as stated: whenever socket.send is called the connection is OPEN (the
\* turn has brought the session to Open before its first chunk frame).
C6_SendsOnlyWhenOpen ==
    \A i \in 1..Len(sendCalls) : sendCalls[i].state = "OPEN"

\* C7: at most one connection is OPEN or CONNECTING.
C7_AtMostOneLiveConnection ==
    Cardinality({c \in Conn : readyState[c] \in {"CONNECTING", "OPEN"}}) <= 1

\* two calls overlap on a live connection, or a second connection has been
\* created after the first one closed
C7_Witness ==
    /\ \A t \in {1, 2} : pc[t] = "sending"
    /\ readyState[1] = "CLOSED"
    /\ readyState[2] \in {"CONNECTING", "OPEN"}

\* the audio of the values pushed on the stream of turn t after the initial ""
Forwarded(t) ==
    LET vs == streamableAudio[t].values IN
    [i \in 1..(Len(vs) - 1) |-> vs[i + 1].audio]

\* the audio of the well-formed messages with audio that the handlers of
\* turn t received
Arrived(t) ==
    LET ms == SelectSeq(received,
                        LAMBDA m : m.to = t /\ m.json /\ m.audio # 0) IN
    [i \in 1..Len(ms) |-> ms[i].audio]

C9_EndOfOutput ==
    /\ \A i \in 1..Len(received) :
          received[i].isFinal => streamableAudio[received[i].to].closed
    /\ \A c \in Conn :
          readyState[c] = "CLOSED" => streamableAudio[handlers[c]].closed

\* turn t is in Processing: the call runs, or the consumer loop over its stream
Processing(t) ==
    pc[t] = "sending" \/ (pc[t] = "returned" /\ ~finished[t])

\* C10 as stated: every turn that enters Processing leaves it.
C10_TurnsReturnToIdle ==
    \A t \in Turn : Processing(t) ~> ~Processing(t)

(***************************************************************************)
(* C11  A failed connection is not reused                                  *)
(***************************************************************************)
\* C11 as stated: a call that finds the module's socket failed (its 'error'
\* has fired) opens a new connection and sends nothing on the failed one.
C11_FailedConnectionNotReused ==
    \A t \in Turn :
        pc[t] # "idle" /\ turnInfo[t].failed =>
            /\ turnInfo[t].fresh
            /\ \A i \in 1..Len(sendCalls) :
                   sendCalls[i].turn = t => sendCalls[i].state # "CLOSING"

(***************************************************************************)
(* C12  A malformed incoming frame is dropped                              *)
(***************************************************************************)
\* the payloads on the stream of turn t
ForwardedSet(t) == { Forwarded(t)[i] : i \in 1..Len(Forwarded(t)) }

\* a message event whose data is not JSON changes neither the connection
\* nor any stream
MalformedChangesNothing ==
    \A c \in Conn, data \in Messages :
        OnMessage(c, data) /\ ~data.json =>
            UNCHANGED <<readyState, streamableAudio, socket, handlers>>

\* C12: a message that cannot be parsed is not forwarded, leaves the
\* connection OPEN and the stream open, and every well-formed audio message
\* that arrives after it is forwarded.
C12_MalformedFrameDropped ==
    /\ [](\A i \in 1..Len(received) :
            ~received[i].json =>
                /\ received[i].audio \notin ForwardedSet(received[i].to)
                /\ \A j \in (i + 1)..Len(received) :
                       received[j].json /\ received[j].audio # 0 =>
                           received[j].audio \in ForwardedSet(received[j].to))
    /\ [][MalformedChangesNothing]_vars

\* a malformed message, then an audio message forwarded on the same
\* connection to the same stream, still open
C12_Witness ==
    /\ Len(received) = 2
    /\ ~received[1].json
    /\ received[2].json /\ received[2].audio = 2
    /\ received[2].conn = received[1].conn
    /\ received[2].to = received[1].to
    /\ readyState[received[2].conn] = "OPEN"
    /\ ~streamableAudio[received[2].to].closed
    /\ Forwarded(received[2].to) = <<2>>

(***************************************************************************)
(* C19  The conversation history                                           *)
(***************************************************************************)
\* the entries turn t pushed, in the order they stand in the history
EntriesOf(t) == SelectSeq(messages, LAMBDA m : m.turn = t)

\* C19: a turn that has started has pushed its user entry first; a turn whose
\* call returned has pushed exactly that entry and then one system entry
\* holding the concatenation of its deltas; a turn pushes nothing else; and
\* every step leaves the entries there are as they are (the history only
\* grows at its end).
C19_HistoryAppendOnly ==
    /\ [](\A t \in Turn :
            LET es == EntriesOf(t)
                full == <<UserMessage(t),
                          SystemMessage(t, Join(generated[t]))>> IN
            /\ pc[t] = "idle" => es = <<>>
            /\ pc[t] = "sending" => es = <<UserMessage(t)>>
            /\ pc[t] = "returned" => es = full
            /\ pc[t] = "failed" => es \in {<<UserMessage(t)>>, full})
    /\ [][IsPrefix(messages, messages')]_vars

\* two completed turns, the second one started before the first response
\* was complete
C19_Witness ==
    /\ \A t \in Turn : pc[t] = "returned" /\ Len(generated[t]) = MaxGen
    /\ Len(messages) = 2 * NTurns
    /\ messages[2].role = "user"
    /\ messages[3].content = <<"a", ".", "a", ".">>

(***************************************************************************)
(* Claims about the audio scheduler                                        *)
(***************************************************************************)
\* C13 as stated: frames are numbered in arrival order; of two frames that
\* have been scheduled, the later one starts no earlier than the end of the
\* slot of the earlier one, in whatever order their decodes complete.
C13_PlaybackInArrivalOrder ==
    \A i, j \in 1..Len(started) :
        started[i].id < started[j].id =>
            started[j].at >= started[i].at + started[i].duration

\* C14: no step decreases nextPlayTime.
C14_NextPlayTimeNeverDecreases == [][nextPlayTime' >= nextPlayTime]_vars

\* a source was scheduled after the clock had passed the cursor, and another
\* one right behind it
C14_Witness ==
    /\ Len(started) >= 2
    /\ started[2].now > started[2].before
    /\ started[1].duration > 0
    /\ nextPlayTime = started[2].now + started[2].duration

\* the clock was not ahead of the cursor when the sources i..j were started
BackToBack(i, j) == \A k \in i..j : started[k].now <= started[k].before

\* d(i) + ... + d(j) of the sources started
RECURSIVE SumDurations(_, _)
SumDurations(i, j) ==
    IF j < i THEN 0 ELSE SumDurations(i, j - 1) + started[j].duration

\* C15: when the sources i..j were started back to back from the cursor t0
\* with the clock not ahead of it, source k starts at t0 + d(i) + ... +
\* d(k-1), and after the last one the cursor is t0 + d(i) + ... + d(j); the
\* durations 1.0, 0.5, 2.0 (in half seconds: 2, 1, 4) give t0 + 3.5 (7).
C15_SumProperty ==
    /\ \A i, j \in 1..Len(started) :
           i <= j /\ BackToBack(i, j) =>
               LET t0 == started[i].before IN
               /\ \A k \in i..j : started[k].at = t0 + SumDurations(i, k - 1)
               /\ j = Len(started) => nextPlayTime = t0 + SumDurations(i, j)
    /\ ( /\ Len(started) = 3
         /\ [k \in 1..3 |-> started[k].duration] = <<2, 1, 4>>
         /\ BackToBack(1, 3) )
       => nextPlayTime = started[1].before + 7

\* decode() has scheduled three queued frames of durations 2, 1, 4 in one go
C15_Witness ==
    /\ Len(started) = 3
    /\ [k \in 1..3 |-> started[k].duration] = <<2, 1, 4>>
    /\ \A k \in 1..3 : started[k].via = "queue"
    /\ BackToBack(1, 3)
    /\ base64Queue = <<>>
    /\ nextPlayTime = 7

\* C16 as stated: a frame whose decoding failed has not been scheduled, and
\* the loop that hands the frames after it to the decoder is still running
\* (the onClick loop that calls playChunk, a processQueue loop for the queue).
C16_DecodeFailureSkipped ==
    failed # {} =>
        /\ \A i \in 1..Len(started) : started[i].id \notin failed
        /\ route = "call" => reading
        /\ route = "queue" => loops > 0

\* audio is playing, scheduled or waiting to be decoded
AudioPending ==
    \/ base64Queue # <<>>
    \/ decoding # {}
    \/ \E i \in 1..Len(started) :
          started[i].at + started[i].duration > currentTime

\* C17 as stated, for the only request the component has that ends a turn,
\* the next click: made while audio is pending, it leaves no frame waiting
\* to be decoded, the cursor at the clock, and every source that has not
\* finished stopped.
C17_ResetStopsPlayback ==
    [][(\E r \in {"queue", "call"} : PlayerClick(r)) /\ AudioPending =>
          /\ base64Queue' = <<>>
          /\ decoding' = {}
          /\ nextPlayTime' = currentTime'
          /\ \A i \in 1..Len(started') :
                 started'[i].at + started'[i].duration > currentTime' =>
                     started'[i].stopped]_vars

(***************************************************************************)
(* C18  One turn at a time                                                 *)
(***************************************************************************)
\* C18 as stated: every click made while a turn is in Processing is answered
\* by the toast only: it starts no recording and no turn; and no two turns
\* are in Processing together.
C18_ClicksRejectedWhileProcessing ==
    /\ \A i \in 1..Len(clicks) :
           clicks[i].busy =>
               /\ clicks[i].rejected
               /\ ~clicks[i].startsRecording
               /\ ~clicks[i].startsTurn
    /\ processing <= 1

(***************************************************************************)
(* C20  stopRecording settles                                              *)
(***************************************************************************)
\* C20 as stated, for a component that stays mounted: a promise of
\* stopRecording that is pending is still polled by its interval, with its
\* timer not beyond the timeout, so that it settles after at most
\* timeout / interval + 1 polls.
C20_StopRecordingSettles ==
    mounted =>
        \A k \in StopCall :
            promise[k] = "pending" =>
                /\ k \in intervals
                /\ timer[k] <= timeout

(***************************************************************************)
(* C21  What stopRecording resolves with                                   *)
(***************************************************************************)
\* C21: the poll that settles a promise of stopRecording resolves it with
\* the blob when the chunk it finds has size > 0 and with undefined when the
\* chunk is empty; no promise is ever resolved with an empty blob.
C21_ResolvesBlobOrUndefined ==
    /\ [](\A k \in StopCall :
            promise[k] \in {"none", "pending", "resolved blob",
                            "resolved undefined", "rejected"})
    /\ [][\A k \in StopCall :
            promise[k] = "pending" /\ promise'[k] # "pending" =>
                /\ chunkRef = "audio" => promise'[k] = "resolved blob"
                /\ chunkRef = "empty" => promise'[k] = "resolved undefined"
                /\ chunkRef = "undefined" => promise'[k] = "rejected"]_vars

\* one call has resolved with undefined (an empty blob was delivered), a
\* later one with its blob
C21_Witness ==
    /\ promise[1] = "resolved undefined"
    /\ promise[2] = "resolved blob"
    /\ intervals = {}

(***************************************************************************)
(* C22  Failure of the generator                                           *)
(***************************************************************************)
RECURSIVE LoopYields(_, _)
\* the chunks the loop of textChunker yields for the deltas ds, starting
\* with the buffer buf
LoopYields(buf, ds) ==
    IF ds = <<>> THEN <<>>
    ELSE LET r == ChunkerStep(buf, Head(ds)) IN
           r.yield \o LoopYields(r.buffer, Tail(ds))

\* the last socket.send of the send loop of turn t threw
LastSendThrew(t) ==
    /\ ChunkCalls(t) # <<>>
    /\ ChunkCalls(t)[Len(ChunkCalls(t))].state = "CONNECTING"

\* turn t has failed and not by a send that threw: generate threw
GenerateThrew(t) == pc[t] = "failed" /\ ~LastSendThrew(t)

\* C22: when generate has thrown after k deltas, the chunks of the turn are
\* exactly those the loop of textChunker yields for these k deltas, the
\* send loop has called socket.send for these and for nothing else, and the
\* text in the buffer of the chunker has stayed there.
C22_GeneratorFailure ==
    \A t \in Turn :
        GenerateThrew(t) =>
            /\ chunks[t] = LoopYields(<<>>, generated[t])
            /\ [i \in 1..Len(ChunkCalls(t)) |-> ChunkCalls(t)[i].text]
                   = chunks[t]

\* generate threw after two deltas, with one chunk sent on the open
\* connection and text left in the buffer
C22_Witness ==
    \E t \in Turn :
        /\ GenerateThrew(t)
        /\ Len(generated[t]) = 2
        /\ Len(chunks[t]) = 1
        /\ buffer[t] # <<>>
        /\ ChunkCalls(t)[1].state = "OPEN"

(***************************************************************************)
(* C23  Overlapping turns                                                  *)
(***************************************************************************)
\* the chunk frames that went out on connection c, in order
ChunkWire(c) == SelectSeq(Wire(c), LAMBDA f : f.kind = "chunk")

\* C23 as stated: on every connection the chunk frames of one turn all go
\* out before any chunk frame of another turn, and every chunk of a turn is
\* sent on the connection the turn opened or reused when it started.
C23_NoInterleavedWrites ==
    /\ \A c \in Conn :
         \A i, j, k \in 1..Len(ChunkWire(c)) :
             i < j /\ j < k /\ ChunkWire(c)[i].turn = ChunkWire(c)[k].turn
                 => ChunkWire(c)[j].turn = ChunkWire(c)[i].turn
    /\ \A i \in 1..Len(sendCalls) :
         sendCalls[i].kind = "chunk"
             => sendCalls[i].conn = turnInfo[sendCalls[i].turn].conn

(***************************************************************************)
(* C24  A single chunk at the end of the stream                            *)
(***************************************************************************)
\* no delta starts with a boundary character, and the text received does
\* not end with one when a further delta arrives
NoCut ==
    \A i \in 1..Len(input) :
        /\ ~ifChunkStartsWithNewSentence(input[i])
        /\ i < Len(input) => ~isEndOfSentence(Join(SubSeq(input, 1, i)))

\* nothing is yielded before the stream has ended, and then the one chunk c
OnlyAtEnd(c) ==
    /\ chunkerPc = "running" => yielded = <<>>
    /\ chunkerPc = "done" => yielded = <<c>>

\* C24 as stated: for every delta sequence without a cut, the one chunk
\* "all deltas concatenated, plus one space" is yielded, after the stream
\* has ended.
C24_AsStated == NoCut => OnlyAtEnd(Join(input) \o <<" ">>)

\* C24 amended: for the deltas "It's", " sunny", " today." the one chunk
\* "It's sunny today. " is yielded at the end of the stream; for every delta
\* sequence without a cut whose concatenation is not empty, the one chunk
\* "all deltas concatenated, plus one space" is yielded, after the stream
\* has ended; when the concatenation is empty no chunk is yielded at all.
C24_SingleChunkAtEnd ==
    /\ input = SunnyDeltas =>
           OnlyAtEnd(Its \o SpaceSunny \o SpaceTodayDot \o <<" ">>)
    /\ NoCut /\ Join(input) # <<>> => OnlyAtEnd(Join(input) \o <<" ">>)
    /\ NoCut /\ Join(input) = <<>> => yielded = <<>>

\* the example has run to its end
C24_Witness ==
    /\ input = SunnyDeltas
    /\ chunkerPc = "done"
    /\ Len(yielded) = 1

(***************************************************************************)
(* C25  The step of the chunker                                            *)
(***************************************************************************)
\* C25: with b the buffer and d the delta that arrives, (1) if b ends with
\* one of the 13 boundary characters, b + " " is yielded and the buffer
\* becomes d; (2) otherwise, if d starts with a boundary character,
\* b + d[0] + " " is yielded and the buffer becomes d without its first
\* character; (3) otherwise nothing is yielded and the buffer becomes b + d.
\* An empty delta is handled by (1) or (3).
C25_ChunkerStepCases ==
    /\ [](Cardinality(splitters) = 13)
    /\ [][ChunkerNext =>
            LET b == chunkBuf
                d == input[consumed + 1]
                bEnds == b # <<>> /\ b[Len(b)] \in splitters
                dStarts == d # <<>> /\ d[1] \in splitters
            IN  /\ bEnds =>
                      /\ yielded' = Append(yielded, b \o <<" ">>)
                      /\ chunkBuf' = d
                /\ ~bEnds /\ dStarts =>
                      /\ yielded' = Append(yielded, b \o <<d[1], " ">>)
                      /\ chunkBuf' = SubSeq(d, 2, Len(d))
                /\ ~bEnds /\ ~dStarts =>
                      /\ yielded' = yielded
                      /\ chunkBuf' = b \o d
                /\ d = <<>> => bEnds \/ (yielded' = yielded /\ chunkBuf' = b)
          ]_vars

\* case (1) has had priority over case (2): the delta consumed last starts
\* with a boundary character and is the buffer, whole
C25_Witness ==
    /\ consumed >= 2
    /\ chunkerPc = "running"
    /\ ifChunkStartsWithNewSentence(input[consumed])
    /\ chunkBuf = input[consumed]
    /\ yielded # <<>>

(***************************************************************************)
(* C26  The flush at the end of the stream                                 *)
(***************************************************************************)
\* C26: when the delta stream ends, textChunker yields buffer + " " as one
\* more chunk if the buffer is not empty and yields nothing more if it is
\* empty; for the empty delta stream it yields nothing at all.
C26_FinalFlush ==
    /\ [](input = <<>> /\ chunkerPc = "done" => yielded = <<>>)
    /\ [][ChunkerEnd =>
            /\ chunkBuf # <<>> =>
                   yielded' = Append(yielded, chunkBuf \o <<" ">>)
            /\ chunkBuf = <<>> => yielded' = yielded]_vars

\* a stream with text has ended with the buffer empty: its one chunk was
\* yielded by the loop and the flush has added nothing
C26_Witness ==
    /\ chunkerPc = "done"
    /\ chunkBuf = <<>>
    /\ Join(input) # <<>>
    /\ Len(yielded) = 1

(***************************************************************************)
(* C27  Chunks end at punctuation                                          *)
(***************************************************************************)
\* the i-th chunk was yielded by the flush at the end of the stream
IsFlushChunk(i) ==
    chunkerPc = "done" /\ i = Len(yielded) /\ chunkBuf # <<>>

\* C27: every chunk that the loop of textChunker yields, that is every
\* chunk but the one of the flush at the end of the stream, ends with a
\* boundary character followed by the one appended space.
C27_PunctuationBounded ==
    \A i \in 1..Len(yielded) :
        ~IsFlushChunk(i) =>
            /\ Len(yielded[i]) >= 2
            /\ yielded[i][Len(yielded[i])] = " "
            /\ yielded[i][Len(yielded[i]) - 1] \in splitters

\* two chunks of the loop, then a flush chunk whose text ends with no
\* boundary character
C27_Witness ==
    /\ chunkerPc = "done"
    /\ Len(yielded) = 3
    /\ chunkBuf # <<>>
    /\ ~isEndOfSentence(chunkBuf)

(***************************************************************************)
(* C28  The scheduling step of a frame                                     *)
(***************************************************************************)
\* the cursor right after the i-th source was started
CursorAfter(i) ==
    IF i < Len(started) THEN started[i + 1].before ELSE nextPlayTime

\* the larger of two times
Max(a, b) == IF a < b THEN b ELSE a

\* the sources are started at max(cursor, clock) and the cursor is then the
\* start time plus the duration
StartsAtMaxAndAdvances ==
    \A i \in 1..Len(started) :
        /\ started[i].at = Max(started[i].before, started[i].now)
        /\ CursorAfter(i) = started[i].at + started[i].duration

\* C28 as stated: every frame decoded is started at max(nextPlayTime, clock),
\* nextPlayTime is then that start time plus the duration of the frame, and
\* an 'ended' listener is registered on its source.
C28_SchedulingStep ==
    /\ StartsAtMaxAndAdvances
    /\ \A i \in 1..Len(started) : started[i].onended

(***************************************************************************)
(* C29  The initialization frame comes first                               *)
(***************************************************************************)
\* C29: the first frame that goes out on a connection is the initialization
\* frame (text " ", voice_settings, xi_api_key), sent once; the chunk frames
\* of every turn follow it.
C29_InitFrameFirst ==
    \A c \in Conn :
        Wire(c) # <<>> =>
            /\ Wire(c)[1].kind = "bos"
            /\ Wire(c)[1].text = <<" ">>
            /\ Wire(c)[1].voice_settings
            /\ \A i \in 2..Len(Wire(c)) : Wire(c)[i].kind = "chunk"

\* a connection has carried its initialization frame and then chunk frames
\* of both turns
C29_Witness ==
    \E c \in Conn :
        /\ Len(Wire(c)) >= 3
        /\ \E i, j \in 2..Len(Wire(c)) :
               Wire(c)[i].turn = 1 /\ Wire(c)[j].turn = 2

(***************************************************************************)
(* C30  Failures of textToSpeechInputStreaming                             *)
(***************************************************************************)
\* turn t created its connection, the connection failed before it was ever
\* open, and every chunk of the turn was handed to it after that
SentAfterOpeningFailed(t) ==
    /\ turnInfo[t].fresh
    /\ Wire(turnInfo[t].conn) = <<>>
    /\ ChunkCalls(t) # <<>>
    /\ \A i \in 1..Len(ChunkCalls(t)) :
           /\ ChunkCalls(t)[i].conn = turnInfo[t].conn
           /\ ChunkCalls(t)[i].state \in {"CLOSING", "CLOSED"}

\* C30 as stated: a call that has returned {tts: null} has terminated the
\* output stream of its turn and nothing of the turn has reached the
\* player; and a call whose connection could not be opened has not
\* returned the stream.
C30_FailureReturnsNull ==
    \A t \in Turn :
        /\ pc[t] = "failed" =>
               /\ streamableAudio[t].closed
               /\ played[t] = <<>>
        /\ pc[t] = "returned" => ~SentAfterOpeningFailed(t)

(***************************************************************************)
(* C31  The output stream is completed once                                *)
(***************************************************************************)
\* update() is never called on a completed stream
NoUpdateAfterDone ==
    [][\A c \in Conn : \A data \in Messages :
         OnMessage(c, data) /\ JSONParses(data) /\ Forwards(data) =>
             ~streamableAudio[handlers[c]].closed]_vars

\* C31 as stated: done() is called on the stream of a turn at most once,
\* that is only while the stream is not yet completed, and update() is
\* never called on a completed stream, whatever the order of the message,
\* error and close events.
C31_CompletedOnce ==
    /\ [][\A c \in Conn :
            OnError(c) \/ OnClose(c) =>
                ~streamableAudio[handlers[c]].closed]_vars
    /\ NoUpdateAfterDone

(***************************************************************************)
(* C32  Audio goes to the turn that asked for it                           *)
(***************************************************************************)
\* the turns whose chunk frames have gone out on connection c
ChunkTurns(c) == {ChunkWire(c)[i].turn : i \in 1..Len(ChunkWire(c))}

\* C32 as stated: an audio frame that arrives on a connection on which the
\* chunks of one turn only have been sent, and which therefore was made
\* from them, is delivered to the stream of that turn.
C32_AudioToOwnTurn ==
    [][\A c \in Conn : \A data \in Messages : \A u \in Turn :
         ( /\ OnMessage(c, data)
           /\ JSONParses(data) /\ Forwards(data)
           /\ ChunkTurns(c) = {u} )
             => streamableAudio'[u] =
                    StreamUpdate(streamableAudio[u],
                                 JSONStringify(data.audio))]_vars

(***************************************************************************)
(* C33  No empty chunk                                                     *)
(***************************************************************************)
\* the end-of-stream frame of the protocol has the text ""
EosText == <<>>

\* C33: every chunk textChunker yields has at least two characters, one of
\* text and the appended space, so that none is the text of the
\* end-of-stream frame.
C33_ChunksNotEmpty ==
    \A i \in 1..Len(yielded) :
        /\ Len(yielded[i]) >= 2
        /\ yielded[i][Len(yielded[i])] = " "
        /\ yielded[i] # EosText

\* the shortest chunks: a boundary character that arrived with the buffer
\* empty, and a one-character buffer flushed at the end
C33_Witness ==
    /\ chunkerPc = "done"
    /\ Len(yielded) = 2
    /\ Len(yielded[1]) = 2 /\ yielded[1][1] \in splitters
    /\ Len(yielded[2]) = 2 /\ yielded[2][1] \notin splitters

(***************************************************************************)
(* C34  The decode queue                                                   *)
(***************************************************************************)
\* the ids of a sequence of frames or of slots
Ids(q) == [i \in 1..Len(q) |-> q[i].id]

\* decoding the frame throws in decode()
Throws(f) == AtobThrows(f) \/ CreateAudioBufferThrows(f)

\* the frames at the head of q up to the first one that throws, without it
RECURSIVE Decodable(_)
Decodable(q) ==
    IF q = <<>> \/ Throws(Head(q)) THEN <<>>
    ELSE <<Head(q)>> \o Decodable(Tail(q))

\* the ids of the frames scheduled, then of those still queued
Taken == Ids(started) \o Ids(base64Queue)

Alternates(ms) ==
    \A i \in 1..Len(ms) :
        ms[i].role = IF i % 2 = 1 THEN "user" ELSE "system"

\* C35 as stated: when generate has thrown in a turn, the user entry of the
\* turn is followed by an assistant entry, and once no call is running the
\* history, which the next call of generate passes on, alternates user and
\* assistant entries.
C35_HistoryConsistentAfterFailure ==
    /\ \A t \in Turn :
          GenerateThrew(t) =>
              \E i \in 1..Len(messages) - 1 :
                  /\ messages[i] = UserMessage(t)
                  /\ messages[i + 1].role = "system"
    /\ (\E t \in Turn : GenerateThrew(t)) /\ (\A t \in Turn : pc[t] # "sending")
          => Alternates(messages)

(***************************************************************************)
(* C36  stopRecording and earlier recordings                               *)
(***************************************************************************)
\* C36 as stated: the k-th call of stopRecording, which stops the k-th
\* recording, does not resolve with the data of an earlier recording,
\* whatever the order of the 'start' and 'dataavailable' events and the
\* polls.
C36_NoEarlierRecording ==
    \A k \in StopCall :
        promise[k] \in {"resolved blob", "resolved undefined"} =>
            resolvedWith[k] >= k

(***************************************************************************)
(* C37  The recording flag and the interval when the promise settles       *)
(***************************************************************************)
\* C37 as stated: the step that settles the promise of a call of
\* stopRecording leaves `recording` false and the interval of that call
\* cleared; and `recording` is true from startRecording on, while the
\* recorder records and while the promise of stopRecording is pending.
C37_FlagAndIntervalAtSettle ==
    /\ [][\A k \in StopCall :
            promise[k] = "pending" /\ promise'[k] # "pending" =>
                /\ recording' = FALSE
                /\ k \notin intervals']_vars
    /\ [](recState = "recording" \/ (\E k \in StopCall : promise[k] = "pending")
            => recording)

(***************************************************************************)
(* C38  stopRecording without a recording                                  *)
(***************************************************************************)
\* the step is a call of stopRecording
StopRecordingCalled == returned' \in {"stop: promise", "stop: undefined"}

\* C38: a call of stopRecording that finds no recorder, or a recorder that
\* is not recording, returns undefined and changes nothing: the recorder is
\* not stopped, no interval is set, no promise is made, and `recording` and
\* the chunk stored are as before.
C38_StopWithoutRecordingIsNoOp ==
    [][StopRecordingCalled /\ recState # "recording" =>
         /\ returned' = "stop: undefined"
         /\ recState' = recState
         /\ events' = events
         /\ intervals' = intervals /\ intervalIdRef' = intervalIdRef
         /\ promise' = promise /\ timer' = timer
         /\ recording' = recording
         /\ chunkRef' = chunkRef]_vars

\* stopRecording has just returned undefined on a recorder that had been
\* stopped before, with the promise of that call pending and `recording`
\* still true
C38_Witness ==
    /\ returned = "stop: undefined"
    /\ recState = "inactive"
    /\ promise[1] = "pending"
    /\ recording
    /\ intervals = {1}

(***************************************************************************)
(* C40  initMediaRecorder: already initialized, or failing                 *)
(***************************************************************************)
\* the step is a call of initMediaRecorder
InitMediaRecorderCalled ==
    returned' \in {"init: recorder", "init: undefined, already initialized"}
                 \cup {"init: undefined, " \o c : c \in CreateMediaErrorCodes}

\* C40: a call of initMediaRecorder that finds a recorder returns undefined
\* and leaves the recorder and everything else as it is; a call in which
\* createMediaRecorder fails returns undefined and leaves the ref unset;
\* and with the ref unset, startRecording changes nothing and `recording`
\* is false.
C40_InitIdempotentAndFailsSafely ==
    /\ [][InitMediaRecorderCalled /\ recState # "none" =>
            /\ returned' = "init: undefined, already initialized"
            /\ hookState' = hookState]_vars
    /\ [][(\E c \in CreateMediaErrorCodes : InitFails(c)) =>
            /\ recState' = "none"
            /\ hookState' = hookState]_vars
    /\ [][returned' \in {"start", "start: no recorder"} /\ recState = "none" =>
            /\ returned' = "start: no recorder"
            /\ hookState' = hookState]_vars
    /\ [](recState = "none" => ~recording)

\* initMediaRecorder has just returned undefined while the recorder it
\* found is recording
C40_Witness ==
    /\ returned = "init: undefined, already initialized"
    /\ recState = "recording"
    /\ recording
    /\ promise[1] # "none"

(***************************************************************************)
(* C39  Requests to the speechToText route that overlap                    *)
(***************************************************************************)
\* C39 as stated: what a request uploads for transcription is its own
\* audio, and a request that is done, unless the transcription service
\* answered it with an error, has status 200 and the transcription of its
\* own audio; whatever other requests do meanwhile.
C39_RequestsIsolated ==
    \A r \in Request :
        /\ request[r].uploaded \in {NoContent, Audio(r)}
        /\ request[r].pc = "done" /\ request[r].error # "API" =>
               /\ request[r].status = 200
               /\ request[r].result = Transcription(Audio(r))
====
